---------------------------- MODULE Spec2Model ----------------------------
(***************************************************************************)
(* A model of the tutorial data structures of hspedro/articles:            *)
(*   - MinHeap (implementing-heap-in-python/minheap-2.py .. minheap-6.py)  *)
(*     with heapsort_aux and heapsort_in_place;                            *)
(*   - SinglyLinkedList (implementing-linked-lists-in-python/part6.py).    *)
(* Three specifications share the variables:                               *)
(*   Spec      a MinHeap driven by add / poll / peek from the empty heap;  *)
(*   SortSpec  heapsort_aux and heapsort_in_place on a bounded input;      *)
(*   ListSpec  a SinglyLinkedList driven by all of its operations.         *)
(* Python lists are 0-based; At and swap keep the source's 0-based indices.*)
(***************************************************************************)
EXTENDS Integers, Sequences, FiniteSets, TLC

VARIABLES
    nodes,           \* MinHeap.nodes
    pre,             \* MinHeap.nodes before the last operation (history)
    op,              \* the last operation and its arguments (history)
    ret,             \* what the last operation returned or raised
    unsorted_input,  \* the caller's list handed to heapsort_*
    S0,              \* the content of that list at the call (history)
    sorted_input,    \* heapsort_aux's output list
    pc,              \* position inside heapsort_aux / heapsort_in_place
    idx,             \* the loop variable of the heapsort loops
    mem,             \* the SLLNode objects: id -> [data, next]
    preMem,          \* mem before the last list operation (history)
    abs              \* the abstract sequence the list is compared with

vars == <<nodes, pre, op, ret, unsorted_input, S0, sorted_input, pc, idx,
          mem, preMem, abs>>

heapVars == <<nodes, pre>>
sortVars == <<unsorted_input, S0, sorted_input, pc, idx>>
listVars == <<mem, preMem, abs>>

----------------------------------------------------------------------------
(* Bounds *)

MaxVal == 2
MaxHeapLen == 4
MaxInputLen == 4
MaxListLen == 3

Values == (0 - 1)..MaxVal

RECURSIVE SeqsUpTo(_, _)
SeqsUpTo(S, n) ==
    IF n = 0 THEN {<<>>}
    ELSE LET shorter == SeqsUpTo(S, n - 1)
         IN shorter \cup {Append(s, v) : s \in {t \in shorter : Len(t) = n - 1}, v \in S}

----------------------------------------------------------------------------
(* Python values: results, Optional[int], truthiness *)

NoneVal == [sig |-> "None", val |-> 0]
IntVal(v) == [sig |-> "int", val |-> v]
Raise(e) == [sig |-> e, val |-> 0]
SelfVal == [sig |-> "self", val |-> 0]
BoolVal(b) == [sig |-> IF b THEN "True" ELSE "False", val |-> 0]

\* bool(x) for x: Optional[int]: None and 0 are falsy
Truthy(o) == o.sig = "int" /\ o.val # 0

Op(name, x, d) == [name |-> name, x |-> x, d |-> d]

At(s, i) == s[i + 1]

Range(s) == {s[i] : i \in DOMAIN s}

BagOf(s) == [v \in Range(s) |-> Cardinality({i \in DOMAIN s : s[i] = v})]

----------------------------------------------------------------------------
(* MinHeap: index helpers ("defined previously" in the snippets) *)

get_left_child_index(i) == 2 * i + 1
get_right_child_index(i) == 2 * i + 2
get_parent_index(i) == (i - 1) \div 2

has_left_child(s, i) == get_left_child_index(i) < Len(s)
has_right_child(s, i) == get_right_child_index(i) < Len(s)
has_parent(i) == get_parent_index(i) >= 0

left_child(s, i) == At(s, get_left_child_index(i))
right_child(s, i) == At(s, get_right_child_index(i))
parent(s, i) == IF has_parent(i) THEN IntVal(At(s, get_parent_index(i))) ELSE NoneVal

\* the min-heap property of section 3 of the specification
IsHeap(s) ==
    \A i \in 0..(Len(s) - 1) :
        /\ has_left_child(s, i) => At(s, i) <= left_child(s, i)
        /\ has_right_child(s, i) => At(s, i) <= right_child(s, i)

----------------------------------------------------------------------------
(* MinHeap: __swap, __heapify_up, add *)

swap(s, first_idx, second_idx) ==
    IF first_idx >= Len(s) \/ second_idx >= Len(s)
    THEN s
    ELSE [s EXCEPT ![first_idx + 1] = At(s, second_idx),
                   ![second_idx + 1] = At(s, first_idx)]

RECURSIVE heapify_up(_, _)
heapify_up(s, child0) ==
    LET child == IF ~Truthy(child0) THEN Len(s) - 1 ELSE child0.val
        parent_idx == get_parent_index(child)
    IN IF Truthy(parent(s, child)) /\ At(s, child) < parent(s, child).val
       THEN heapify_up(swap(s, child, parent_idx), IntVal(parent_idx))
       ELSE s

add(s, item) == heapify_up(Append(s, item), NoneVal)

----------------------------------------------------------------------------
(* MinHeap: __heapify_down, is_empty, poll, peek *)

\* __heapify_down as it would be if it never looked at the right child
RECURSIVE heapify_down_left_only(_, _)
heapify_down_left_only(s, index) ==
    IF index >= Len(s) \/ ~has_left_child(s, index) THEN s
    ELSE LET smaller_child_idx == get_left_child_index(index)
         IN IF At(s, index) < At(s, smaller_child_idx) THEN s
            ELSE IF At(s, index) > At(s, smaller_child_idx)
            THEN heapify_down_left_only(swap(s, index, smaller_child_idx), smaller_child_idx)
            ELSE s

RECURSIVE heapify_down(_, _)
heapify_down(s, index) ==
    IF index >= Len(s) \/ ~has_left_child(s, index) THEN s
    ELSE LET smaller_child_idx ==
                 IF has_right_child(s, index) /\ right_child(s, index) < left_child(s, index)
                 THEN get_right_child_index(index)
                 ELSE get_left_child_index(index)
         IN IF At(s, index) < At(s, smaller_child_idx) THEN s
            ELSE IF At(s, index) > At(s, smaller_child_idx)
            THEN heapify_down(swap(s, index, smaller_child_idx), smaller_child_idx)
            ELSE s

is_empty(s) == Len(s) = 0

\* poll: [nodes, ret]
poll(s) ==
    IF is_empty(s) THEN [nodes |-> s, ret |-> NoneVal]
    ELSE LET removed_node == At(s, 0)
             moved == [s EXCEPT ![1] = At(s, Len(s) - 1)]
             shrunk == SubSeq(moved, 1, Len(s) - 1)
         IN [nodes |-> heapify_down(shrunk, 0), ret |-> IntVal(removed_node)]

\* nodes[i] as an expression: IndexError outside the list
Subscript(s, i) ==
    IF i >= 0 /\ i < Len(s) THEN IntVal(At(s, i)) ELSE Raise("IndexError")

\* peek: what it returns or raises
peek(s) ==
    IF ~is_empty(s) THEN NoneVal
    ELSE Subscript(s, 0)

----------------------------------------------------------------------------
(* Spec: a MinHeap from the empty heap *)

NoOp == Op("init", 0, "")

IdleSort ==
    /\ unsorted_input = <<>>
    /\ S0 = <<>>
    /\ sorted_input = <<>>
    /\ pc = "idle"
    /\ idx = 0

IdleList ==
    /\ mem = <<>>
    /\ preMem = <<>>
    /\ abs = <<>>

IdleHeap ==
    /\ nodes = <<>>
    /\ pre = <<>>

Init ==
    /\ nodes = <<>>
    /\ pre = <<>>
    /\ op = NoOp
    /\ ret = NoneVal
    /\ IdleSort
    /\ IdleList

Add ==
    \E x \in Values :
        /\ Len(nodes) < MaxHeapLen
        /\ nodes' = add(nodes, x)
        /\ pre' = nodes
        /\ op' = Op("add", x, "")
        /\ ret' = NoneVal
        /\ UNCHANGED <<sortVars, listVars>>

Poll ==
    /\ nodes' = poll(nodes).nodes
    /\ ret' = poll(nodes).ret
    /\ pre' = nodes
    /\ op' = Op("poll", 0, "")
    /\ UNCHANGED <<sortVars, listVars>>

Peek ==
    /\ ret' = peek(nodes)
    /\ nodes' = nodes
    /\ pre' = nodes
    /\ op' = Op("peek", 0, "")
    /\ UNCHANGED <<sortVars, listVars>>

Next == Add \/ Poll \/ Peek

Spec == Init /\ [][Next]_vars


----------------------------------------------------------------------------
(* Claims about add, poll and peek (checked under Spec) *)

Ascending(s) == \A i \in 1..(Len(s) - 1) : s[i] <= s[i + 1]

\* C1: after add(x) the min-heap invariant holds and the multiset of elements
\* is the multiset before the call plus x, for every integer x (0 and
\* negative values included).
C1_AddKeepsHeap ==
    op.name = "add" =>
        /\ IsHeap(nodes)
        /\ BagOf(nodes) = BagOf(Append(pre, op.x))

\* C2: poll() on a non-empty valid heap returns the minimum element and leaves
\* a valid heap, one shorter, over the remaining multiset; poll() on an empty
\* heap returns None and leaves nodes unchanged.
C2_PollReturnsMin ==
    op.name = "poll" =>
        /\ (pre # <<>> /\ IsHeap(pre)) =>
               /\ ret.sig = "int"
               /\ ret.val \in Range(pre)
               /\ \A v \in Range(pre) : ret.val <= v
               /\ Len(nodes) = Len(pre) - 1
               /\ IsHeap(nodes)
               /\ BagOf(Append(nodes, ret.val)) = BagOf(pre)
        /\ pre = <<>> => (ret = NoneVal /\ nodes = pre)

\* a poll of a valid heap with duplicates in which the sift-down moved the
\* element copied from the end away from the root
C2_Witness ==
    /\ op.name = "poll"
    /\ IsHeap(pre)
    /\ Len(pre) >= 4
    /\ Cardinality(Range(pre)) < Len(pre)
    /\ ret = IntVal(At(pre, 0))
    /\ At(nodes, 0) # At(pre, Len(pre) - 1)

\* C4: peek() returns nodes[0] of a non-empty heap and None of an empty heap,
\* and leaves nodes unchanged in both cases.
C4_PeekReturnsRoot ==
    op.name = "peek" =>
        /\ nodes = pre
        /\ pre # <<>> => ret = IntVal(At(pre, 0))
        /\ pre = <<>> => ret = NoneVal

----------------------------------------------------------------------------
(* heapsort_aux and heapsort_in_place *)

\* MinHeap.__init__: add every element of the given list to an empty heap
RECURSIVE MinHeapInit(_, _)
MinHeapInit(s, given) ==
    IF given = <<>> THEN s
    ELSE MinHeapInit(add(s, Head(given)), Tail(given))

RECURSIVE heapify_children(_, _)
heapify_children(s, index) ==
    IF ~has_left_child(s, index) THEN s
    ELSE IF ~has_right_child(s, index) THEN s
    ELSE LET swapped ==
                 IF right_child(s, index) < left_child(s, index)
                 THEN swap(s, get_right_child_index(index), get_left_child_index(index))
                 ELSE s
             left_done == heapify_children(swapped, get_left_child_index(index))
         IN heapify_children(left_done, get_right_child_index(index))

\* range(size // 2, -1, -1) of heapsort_in_place: its first index, and
\* whether idx (counting down from it) is still in the range
\* the range as it would be if it stopped before index 0: range(size // 2, 0, -1)
InPlaceRangeSkipsRoot(i) == i >= 1

InPlaceRangeFirst(size) == size \div 2
InPlaceRangeHas(i) == i >= 0

SortInit ==
    /\ unsorted_input \in SeqsUpTo(Values, MaxInputLen)
    /\ S0 = unsorted_input
    /\ sorted_input = <<>>
    /\ pc \in {"aux_call", "inplace_call"}
    /\ idx = 0
    /\ op = NoOp
    /\ ret = NoneVal
    /\ IdleHeap
    /\ IdleList

\* heapsort_aux: heap = MinHeap(unsorted_input); sorted_input = []
AuxBuild ==
    /\ pc = "aux_call"
    /\ nodes' = MinHeapInit(<<>>, unsorted_input)
    /\ sorted_input' = <<>>
    /\ idx' = 0
    /\ pc' = "aux_loop"
    /\ UNCHANGED <<pre, op, ret, unsorted_input, S0, listVars>>

\* one iteration of: for _ in range(len(unsorted_input)): append(heap.poll())
AuxPoll ==
    /\ pc = "aux_loop"
    /\ idx < Len(unsorted_input)
    /\ sorted_input' = Append(sorted_input, poll(nodes).ret)
    /\ nodes' = poll(nodes).nodes
    /\ idx' = idx + 1
    /\ UNCHANGED <<pre, op, ret, unsorted_input, S0, pc, listVars>>

AuxReturn ==
    /\ pc = "aux_loop"
    /\ idx >= Len(unsorted_input)
    /\ pc' = "aux_done"
    /\ UNCHANGED <<nodes, pre, op, ret, unsorted_input, S0, sorted_input, idx, listVars>>

\* heapsort_in_place: heap = MinHeap(); heap.nodes = unsorted_input (the same
\* list object: every later write to nodes is a write to unsorted_input)
InPlaceStart ==
    /\ pc = "inplace_call"
    /\ nodes' = unsorted_input
    /\ idx' = InPlaceRangeFirst(Len(unsorted_input))
    /\ pc' = "inplace_loop"
    /\ UNCHANGED <<pre, op, ret, unsorted_input, S0, sorted_input, listVars>>

InPlaceHeapifyDown ==
    /\ pc = "inplace_loop"
    /\ InPlaceRangeHas(idx)
    /\ nodes' = heapify_down(nodes, idx)
    /\ unsorted_input' = nodes'
    /\ idx' = idx - 1
    /\ UNCHANGED <<pre, op, ret, S0, sorted_input, pc, listVars>>

InPlaceLoopExit ==
    /\ pc = "inplace_loop"
    /\ ~InPlaceRangeHas(idx)
    /\ pc' = "inplace_heapified"
    /\ UNCHANGED <<nodes, pre, op, ret, unsorted_input, S0, sorted_input, idx, listVars>>

InPlaceHeapifyChildren ==
    /\ pc = "inplace_heapified"
    /\ nodes' = heapify_children(nodes, 0)
    /\ unsorted_input' = nodes'
    /\ pc' = "inplace_done"
    /\ UNCHANGED <<pre, op, ret, S0, sorted_input, idx, listVars>>

SortNext ==
    \/ AuxBuild
    \/ AuxPoll
    \/ AuxReturn
    \/ InPlaceStart
    \/ InPlaceHeapifyDown
    \/ InPlaceLoopExit
    \/ InPlaceHeapifyChildren

SortSpec == SortInit /\ [][SortNext]_vars

----------------------------------------------------------------------------
(* Claims about the heapsorts (checked under SortSpec) *)

\* C3: heapsort_aux(S) returns an ascending permutation of S that holds no
\* None, and leaves S itself unchanged.
C3_HeapsortAuxSorts ==
    pc = "aux_done" =>
        /\ \A i \in DOMAIN sorted_input : sorted_input[i].sig = "int"
        /\ Ascending([i \in DOMAIN sorted_input |-> sorted_input[i].val])
        /\ BagOf([i \in DOMAIN sorted_input |-> sorted_input[i].val]) = BagOf(S0)
        /\ unsorted_input = S0

\* C5: heapsort_in_place returns the elements of its input in ascending order.
C5_HeapsortInPlaceSorts ==
    pc = "inplace_done" =>
        /\ Ascending(nodes)
        /\ BagOf(nodes) = BagOf(S0)

\* C10: after the down-heapify step has run on every index from len//2 down
\* to 0, and before heapify_children, the caller's sequence satisfies the
\* min-heap invariant and holds the multiset of the input.
C10_BottomUpBuildsHeap ==
    pc = "inplace_heapified" =>
        /\ IsHeap(unsorted_input)
        /\ BagOf(unsorted_input) = BagOf(S0)

\* the pass has finished on an input with duplicates that was no heap
C10_Witness ==
    /\ pc = "inplace_heapified"
    /\ Len(S0) >= 4
    /\ ~IsHeap(S0)
    /\ Cardinality(Range(S0)) < Len(S0)
    /\ unsorted_input # S0

----------------------------------------------------------------------------
(* SinglyLinkedList: the node objects *)

\* Node objects are numbered; NoNode is Python's None as a next-reference.
NoNode == 0
\* self.HEAD, the sentinel, is the first object the constructor creates.
HEAD == 1

NodeIds == 1..(MaxListLen + 2)
Data == {"HEAD", "a", "b"}
Indices == (0 - 1)..(MaxListLen + 1)

SLLNode(data, next) == [data |-> data, next |-> next]

\* a reference to a node, or None
NodeRef(n) == IF n = NoNode THEN NoneVal ELSE [sig |-> "node", val |-> n]

\* the object a constructor call creates: the first unused number
New(m) ==
    CHOOSE n \in NodeIds \ DOMAIN m : \A k \in NodeIds \ DOMAIN m : n <= k

\* __iter__: the nodes the generator yields, the sentinel first
RECURSIVE IterFrom(_, _)
IterFrom(m, node) ==
    IF node = NoNode THEN <<>>
    ELSE <<node>> \o IterFrom(m, m[node].next)

iter(m) == IterFrom(m, HEAD)

len(m) == Len(iter(m)) - 1

RECURSIVE ContainsFrom(_, _, _)
ContainsFrom(m, node, data) ==
    IF node = NoNode THEN FALSE
    ELSE IF m[node].data = data THEN TRUE
    ELSE ContainsFrom(m, m[node].next, data)

contains(m, data) == ContainsFrom(m, HEAD, data)

\* the bounds check shared by __getitem__, __setitem__ and __delitem__
IndexOutOfRange(m, index) == index < 0 /\ index > len(m) - 1

\* node = self.HEAD; for _ in range(k): node = node.next
\* (None.next raises AttributeError)
RECURSIVE Walk(_, _, _)
Walk(m, node, k) ==
    IF k <= 0 THEN NodeRef(node)
    ELSE IF node = NoNode THEN Raise("AttributeError")
    ELSE Walk(m, m[node].next, k - 1)

Done(m, r) == [mem |-> m, ret |-> r]

getitem(m, index) ==
    IF IndexOutOfRange(m, index) THEN Done(m, Raise("IndexError"))
    ELSE LET node == Walk(m, HEAD, index)
         IN IF node.sig # "node" THEN Done(m, Raise("AttributeError"))
            ELSE Done(m, NodeRef(m[node.val].next))

setitem(m, index, data) ==
    IF IndexOutOfRange(m, index) THEN Done(m, Raise("IndexError"))
    ELSE LET node == Walk(m, HEAD, index + 1)
         IN IF node.sig # "node" THEN Done(m, Raise("AttributeError"))
            ELSE Done([m EXCEPT ![node.val].data = data], SelfVal)

delitem(m, index) ==
    IF IndexOutOfRange(m, index) THEN Done(m, Raise("IndexError"))
    ELSE LET node == Walk(m, HEAD, index)
         IN IF node.sig # "node" THEN Done(m, Raise("AttributeError"))
            ELSE LET nxt == m[node.val].next
                 IN Done([m EXCEPT ![node.val].next =
                              IF nxt # NoNode THEN m[nxt].next ELSE NoNode],
                         NoneVal)

----------------------------------------------------------------------------
(* SinglyLinkedList: append, pop, appendleft, popleft, find, remove *)

append(m, data) ==
    LET it == iter(m)
        node == it[Len(it)]
        created == New(m)
    IN Done([(m @@ (created :> SLLNode(data, NoNode))) EXCEPT ![node].next = created],
            SelfVal)

\* node = self.HEAD; while node.next.next: node = node.next
RECURSIVE PopWalk(_, _)
PopWalk(m, node) ==
    IF m[m[node].next].next # NoNode THEN PopWalk(m, m[node].next)
    ELSE node

pop(m) ==
    IF m[HEAD].next = NoNode THEN Done(m, NoneVal)
    ELSE LET node == PopWalk(m, HEAD)
             removed_node == m[node].next
         IN Done([m EXCEPT ![node].next = NoNode], NodeRef(removed_node))

\* appendleft as it would be without new_node.next = previous_first
appendleft_drops_rest(m, data) ==
    LET new_node == New(m)
        m1 == m @@ (new_node :> SLLNode(data, NoNode))
    IN Done([m1 EXCEPT ![HEAD].next = new_node], SelfVal)

appendleft(m, data) ==
    LET new_node == New(m)
        m1 == m @@ (new_node :> SLLNode(data, NoNode))
    IN IF m[HEAD].next = NoNode
       THEN LET second == New(m1)
            IN Done([(m1 @@ (second :> SLLNode(data, NoNode)))
                         EXCEPT ![HEAD].next = second],
                    SelfVal)
       ELSE LET previous_first == m[HEAD].next
            IN Done([m1 EXCEPT ![HEAD].next = new_node,
                               ![new_node].next = previous_first],
                    SelfVal)

popleft(m) ==
    IF m[HEAD].next = NoNode THEN Done(m, NoneVal)
    ELSE LET previous_first == m[HEAD].next
         IN Done([m EXCEPT ![HEAD].next = m[previous_first].next],
                 NodeRef(previous_first))

RECURSIVE FindFrom(_, _, _)
FindFrom(m, node, data) ==
    IF node = NoNode THEN NoneVal
    ELSE IF m[node].data = data THEN NodeRef(node)
    ELSE FindFrom(m, m[node].next, data)

find(m, data) ==
    IF m[HEAD].next = NoNode THEN NoneVal
    ELSE FindFrom(m, HEAD, data)

\* for node in self: if node.next.data == data: ...
\* (None.data raises AttributeError at the last node)
RECURSIVE RemoveFrom(_, _, _)
RemoveFrom(m, node, data) ==
    IF node = NoNode THEN Done(m, NoneVal)
    ELSE IF m[node].next = NoNode THEN Done(m, Raise("AttributeError"))
    ELSE IF m[m[node].next].data = data
    THEN Done([m EXCEPT ![node].next = m[m[node].next].next], SelfVal)
    ELSE RemoveFrom(m, m[node].next, data)

remove(m, data) ==
    IF m[HEAD].next = NoNode THEN Done(m, NoneVal)
    ELSE RemoveFrom(m, HEAD, data)

----------------------------------------------------------------------------
(* ListSpec: a SinglyLinkedList from the empty list *)

\* the payloads of the data nodes, in order from the sentinel
Payloads(m) == [i \in 1..len(m) |-> m[iter(m)[i + 1]].data]

\* the chain from the sentinel: which node holds what, in order
Chain(m) == [i \in DOMAIN iter(m) |-> [id |-> iter(m)[i], data |-> m[iter(m)[i]].data]]

\* the objects still referenced: those on the chain, and the one returned
Live(m, r) ==
    LET keep == Range(iter(m)) \cup (IF r.sig = "node" THEN {r.val} ELSE {})
    IN [n \in keep |-> m[n]]

ListInit ==
    /\ mem = (HEAD :> SLLNode("HEAD", NoNode))
    /\ preMem = mem
    /\ abs = <<>>
    /\ op = NoOp
    /\ ret = NoneVal
    /\ IdleHeap
    /\ IdleSort

\* The list as a call finds it: the caller has let go of the node the
\* previous call returned, and the objects are renumbered in chain order
\* (an object's number carries no meaning beyond its identity within a call).
AtCall(m) ==
    LET it == iter(m)
    IN [n \in 1..Len(it) |->
            SLLNode(m[it[n]].data, IF n < Len(it) THEN n + 1 ELSE NoNode)]

\* a call returns r = [mem, ret]
Returns(o, r) ==
    /\ op' = o
    /\ ret' = r.ret
    /\ mem' = Live(r.mem, r.ret)
    /\ preMem' = AtCall(mem)
    /\ UNCHANGED <<heapVars, sortVars>>

ListAppend ==
    \E d \in Data :
        /\ len(mem) < MaxListLen
        /\ Returns(Op("append", 0, d), append(AtCall(mem), d))
        /\ abs' = Append(abs, d)

ListAppendLeft ==
    \E d \in Data :
        /\ len(mem) < MaxListLen
        /\ Returns(Op("appendleft", 0, d), appendleft(AtCall(mem), d))
        /\ abs' = <<d>> \o abs

ListPop ==
    /\ Returns(Op("pop", 0, ""), pop(AtCall(mem)))
    /\ abs' = IF abs = <<>> THEN abs ELSE SubSeq(abs, 1, Len(abs) - 1)

ListPopLeft ==
    /\ Returns(Op("popleft", 0, ""), popleft(AtCall(mem)))
    /\ abs' = IF abs = <<>> THEN abs ELSE Tail(abs)

\* The operations below are not among the four of the abstract sequence:
\* abs follows the chain they leave.
ListGetItem ==
    \E i \in Indices :
        /\ Returns(Op("getitem", i, ""), getitem(AtCall(mem), i))
        /\ abs' = Payloads(mem')

ListSetItem ==
    \E i \in Indices, d \in Data :
        /\ Returns(Op("setitem", i, d), setitem(AtCall(mem), i, d))
        /\ abs' = Payloads(mem')

ListDelItem ==
    \E i \in Indices :
        /\ Returns(Op("delitem", i, ""), delitem(AtCall(mem), i))
        /\ abs' = Payloads(mem')

ListFind ==
    \E d \in Data :
        /\ Returns(Op("find", 0, d), Done(AtCall(mem), find(AtCall(mem), d)))
        /\ abs' = Payloads(mem')

ListRemove ==
    \E d \in Data :
        /\ Returns(Op("remove", 0, d), remove(AtCall(mem), d))
        /\ abs' = Payloads(mem')

ListContains ==
    \E d \in Data :
        /\ Returns(Op("contains", 0, d),
                   Done(AtCall(mem), BoolVal(contains(AtCall(mem), d))))
        /\ abs' = Payloads(mem')

ListLen ==
    /\ Returns(Op("len", 0, ""), Done(AtCall(mem), IntVal(len(AtCall(mem)))))
    /\ abs' = Payloads(mem')

ListNext ==
    \/ ListAppend
    \/ ListAppendLeft
    \/ ListPop
    \/ ListPopLeft
    \/ ListGetItem
    \/ ListSetItem
    \/ ListDelItem
    \/ ListFind
    \/ ListRemove
    \/ ListContains
    \/ ListLen

ListSpec == ListInit /\ [][ListNext]_vars

----------------------------------------------------------------------------
(* Claims about the SinglyLinkedList (checked under ListSpec) *)

RemoveAt(s, k) == SubSeq(s, 1, k - 1) \o SubSeq(s, k + 1, Len(s))

\* C6: the payloads reachable from the sentinel, in order, equal the abstract
\* sequence (append pushes at the back, appendleft at the front, pop removes
\* the last element, popleft the first); pop and popleft return the node
\* holding the removed payload, or None with the list unchanged when there
\* are no data nodes; len equals the sequence length.
C6_ListRefinesSequence ==
    /\ Payloads(mem) = abs
    /\ len(mem) = Len(abs)
    /\ op.name = "len" => ret = IntVal(Len(abs))
    /\ op.name \in {"pop", "popleft"} =>
           LET before == Payloads(preMem)
               at == IF op.name = "pop" THEN Len(before) ELSE 1
           IN IF before = <<>>
              THEN ret = NoneVal /\ Chain(mem) = Chain(preMem)
              ELSE /\ ret.sig = "node"
                   /\ ret.val = iter(preMem)[at + 1]
                   /\ mem[ret.val].data = before[at]
                   /\ abs = RemoveAt(before, at)

\* the specification's example: appendleft, appendleft, append, then popleft
\* returns the node of the first payload and leaves the other two in order
C6_Witness ==
    /\ op.name = "popleft"
    /\ ret.sig = "node"
    /\ Len(abs) = 2
    /\ abs[1] # abs[2]
    /\ mem[ret.val].data # abs[1]
    /\ Payloads(preMem) = <<mem[ret.val].data>> \o abs

\* C7: get(index), set(index, data) and delete(index) raise IndexError and
\* leave the list unchanged when index < 0 or index >= length; for
\* 0 <= index < length they act on the data node at that position.
C7_IndexOutOfRangeSignalled ==
    op.name \in {"getitem", "setitem", "delitem"} =>
        LET before == Chain(preMem)
            i == op.x
        IN IF i < 0 \/ i >= len(preMem)
           THEN ret.sig = "IndexError" /\ Chain(mem) = before
           ELSE CASE op.name = "getitem" ->
                         ret = NodeRef(iter(preMem)[i + 2]) /\ Chain(mem) = before
                  [] op.name = "setitem" ->
                         Chain(mem) = [before EXCEPT ![i + 2].data = op.d]
                  [] op.name = "delitem" ->
                         Chain(mem) = RemoveAt(before, i + 2)

\* C8: remove(d) unlinks exactly the first data node whose payload equals d
\* and leaves the others in order; on an empty list it returns None without
\* effect; when d is absent from a non-empty list it completes normally
\* without changing the list.
C8_RemoveFirstMatch ==
    op.name = "remove" =>
        LET before == Chain(preMem)
            P == Payloads(preMem)
            hits == {k \in DOMAIN P : P[k] = op.d}
        IN IF P = <<>>
           THEN ret = NoneVal /\ Chain(mem) = before
           ELSE IF hits # {}
           THEN LET first == CHOOSE k \in hits : \A j \in hits : k <= j
                IN Chain(mem) = RemoveAt(before, first + 1)
           ELSE /\ ret.sig \notin {"AttributeError", "IndexError"}
                /\ Chain(mem) = before

\* C9: contains(x) is true if and only if find(x) returns a node rather than
\* None, for every list (the empty list included) and every x (the
\* sentinel's payload included).
C9_ContainsIffFind ==
    op.name = "contains" =>
        ((ret = BoolVal(TRUE)) <=> (find(preMem, op.d).sig = "node"))

=============================================================================
